---- MODULE Spec2Model ----
(***************************************************************************)
(* LogMaster (sergical/logmaster): the session gameplay engine.            *)
(*                                                                         *)
(* The repository holds five state machines:                               *)
(*   "canvas"  - the Phaser GameScene and the React component around it    *)
(*               (src/src/components/RetroGameCanvas.tsx)                  *)
(*   "manager" - the GameManager singleton (src/src/lib/game-manager.ts)   *)
(*   "convex"  - the stored game sessions (src/convex/gameSessions.ts)     *)
(*   "hook"    - the useConvexGame hook, the player it reads and writes    *)
(*               and the sessions it starts and ends                       *)
(*               (src/convex/schema.ts lines 94-286, src/unnamed/part_000, *)
(*               src/convex/players.ts, src/convex/gameSessions.ts)        *)
(*   "players" - the players table under createOrUpdatePlayer              *)
(*               (src/convex/players.ts lines 4-51)                        *)
(* A behaviour exercises one of them (variable unit, chosen by Init); the  *)
(* variables of the others keep their initial values.                      *)
(*                                                                         *)
(* Time is in milliseconds, as in the source.  A log's y is kept in        *)
(* thousandths of a pixel so that  y += (fallSpeed * delta) / 1000  is     *)
(* exact integer arithmetic.                                               *)
(***************************************************************************)
EXTENDS Integers, Sequences, FiniteSets, TLC

VARIABLES
  unit,             \* which of the state machines this behaviour runs
  \* ---- React state of RetroGameCanvas (useState, lines 46-64)
  isPlaying, showInstructions, isInitializing, isPaused, gameActive,
  currentScore, currentCombo,
  gameStats,        \* [chopsCount, maxCombo]
  initGame,         \* the initGame() call in flight and the render it closes over
  endPending,       \* handleEndGame is awaiting the persistence calls
  checksInFlight,   \* achievement checks issued by destroys and not yet settled
  sessionsStarted,  \* how many times handleStartGame ran
  \* ---- the Phaser game (gameRef.current) and its GameScene fields
  gameRef,          \* "null" or "game"
  sceneIsPaused,    \* the isPaused the scene's closures see
  sceneGameActive,  \* the gameActive the scene's closures see
  score, combo, level, gameTime, logs, logSpawnTimer, logSpawnRate,
  gameStartTime, totalPausedTime, pauseStartTime, isGameActive,
  now,              \* this.time.now
  lastEvent,        \* last Sentry.logger record of the latest handler call
  \* ---- GameManager
  gameState,
  nextLogId,
  lastResult,       \* what the latest GameManager call returned
  \* ---- Convex tables
  gameSessions, leaderboard,
  \* ---- useConvexGame
  hookVariant,          \* which of the two sources of the hook is built
  player,               \* the player's row of the players table
  unlockedAchievements, \* what the latest checkAndUnlockAchievements returned
  playerQuery,          \* useQuery(api.players.getPlayer) as the callbacks in
                        \* use close over it
  sessionId,            \* useState sessionId; 0 stands for null
  endCalls,             \* the endGame() calls and where each of them stands
  \* ---- the players table under createOrUpdatePlayer
  players,              \* sequence of [userId, name]
  createResult          \* what the latest createOrUpdatePlayer call did

canvasVars == << isPlaying, showInstructions, isInitializing, isPaused, gameActive,
                 currentScore, currentCombo, gameStats, initGame, endPending,
                 checksInFlight, sessionsStarted, gameRef, sceneIsPaused,
                 sceneGameActive,
                 score, combo, level, gameTime, logs, logSpawnTimer, logSpawnRate,
                 gameStartTime, totalPausedTime, pauseStartTime, isGameActive,
                 now, lastEvent >>

reactVars == << isPlaying, showInstructions, isInitializing, gameActive,
                gameStats, initGame, endPending, sessionsStarted >>

sceneVars == << score, combo, level, gameTime, logs, logSpawnTimer, logSpawnRate,
                gameStartTime, totalPausedTime, pauseStartTime, isGameActive >>

managerVars == << gameState, nextLogId, lastResult >>

convexVars == << gameSessions, leaderboard >>

hookVars == << hookVariant, player, unlockedAchievements, playerQuery, sessionId,
              endCalls >>

playersVars == << players, createResult >>

vars == << unit, canvasVars, managerVars, convexVars, hookVars, playersVars >>

-----------------------------------------------------------------------------
(* Bounds of the model *)

MaxTime == 36000
StartTime == 1000
MaxChops == 3
MaxSessions == 2

Deltas == {5000, 30000}
Rands == {10, 50, 320, 990}
SpawnXs == {400}
FallSpeeds == {100}
ClickXs == {400, 10}
ClickYs == {450}

MaxStreakTime == 72000
MaxStreakChops == 26
StreakDeltas == {2500}
StreakRands == {990}
StreakClickYs == {200}

MaxOverlapTime == 11000
MaxOverlapChops == 2
OverlapDeltas == {1250}
OverlapRands == {990}
OverlapSpeeds == {100, 160}
OverlapClickYs == {560}

MaxLevelTime == 451000
LevelDeltas == {2500, 30000}
LevelRands == {320, 999}

MaxPersistTime == 18500
MaxPersistChops == 6
PersistRands == {50}

MaxManagerLogs == 2
ManagerTypes == {"regular", "hardwood", "golden"}
ManagerSizes == {"small", "medium"}
ReactionTimes == {-1, 0, 80, 120}

MaxComboLogs == 3
ComboTypes == {"regular", "golden"}
ComboSizes == {"small"}
ComboReactionTimes == {-1}

MaxCenturyLogs == 100
MaxCenturyResetChops == 12

MaxStoredSessions == 1
MaxLeaderboardRows == 2
SessionScores == {50}
SessionLevels == {1}
SessionCombos == {0, 1, 2}

MaxGamesPlayed == 1
PlayedScores == {1000}
PlayedChops == {900}
PlayedCombos == {10}
PlayTimes == {60000}
PlayedFastestChops == {-1, 150}
\* the stats of a checkAndUnlockAchievements call; reactionTime = -1 stands
\* for an absent reactionTime
CheckStats ==
  { [score |->  999, combo |->  9, chops |->   0, reactionTime |->  -1],
    [score |-> 1000, combo |-> 10, chops |->   0, reactionTime |-> 201],
    [score |->  999, combo |->  9, chops |-> 100, reactionTime |-> 200],
    [score |-> 1000, combo |-> 10, chops |-> 100, reactionTime |-> 200] }

MaxEndCalls == 2
MaxEndSessions == 2
EndStats == {[score |-> 50, chops |-> 3, maxCombo |-> 2, playTime |-> 60,
              fastestChop |-> 150]}

EndOutcomes == {"saved", "endGame rejected", "checkAndUnlockAchievements rejected"}
CheckOutcomes == {"resolved", "rejected"}

UserIds == {"u1", "u2", "u3"}
Names == {"ann", "bob", "cy"}

-----------------------------------------------------------------------------
(* Program constants *)

LEVEL_PERIOD_MS == 30000
BASE_INTERVAL_MS == 2000
MIN_INTERVAL_MS == 500
INTERVAL_STEP_MS == 100
FieldWidth == 800
FieldHeight == 600
SpawnY == -50
OffFieldMargin == 50

Max(a, b) == IF a >= b THEN a ELSE b
Min(a, b) == IF a <= b THEN a ELSE b

NoEvent == [msg |-> "none"]

-----------------------------------------------------------------------------
(* GameScene: field initialisers and create()  (lines 161-179, 293-297) *)

SceneFresh ==
  /\ score = 0 /\ combo = 0 /\ level = 1 /\ gameTime = 0 /\ logs = << >>
  /\ logSpawnTimer = 0 /\ logSpawnRate = BASE_INTERVAL_MS
  /\ gameStartTime = 0 /\ totalPausedTime = 0 /\ pauseStartTime = 0
  /\ isGameActive = FALSE

SceneFreshNext ==
  /\ score' = 0 /\ combo' = 0 /\ level' = 1 /\ gameTime' = 0 /\ logs' = << >>
  /\ logSpawnTimer' = 0 /\ logSpawnRate' = BASE_INTERVAL_MS
  /\ gameStartTime' = 0 /\ totalPausedTime' = 0 /\ pauseStartTime' = 0
  /\ isGameActive' = FALSE

InitCanvas ==
  /\ isPlaying = FALSE /\ showInstructions = TRUE /\ isInitializing = FALSE
  /\ isPaused = FALSE /\ gameActive = FALSE
  /\ currentScore = 0 /\ currentCombo = 0
  /\ gameStats = [chopsCount |-> 0, maxCombo |-> 0]
  /\ initGame = [running |-> FALSE, isPaused |-> FALSE, gameActive |-> FALSE]
  /\ endPending = FALSE
  /\ checksInFlight = 0
  /\ sessionsStarted = 0
  /\ gameRef = "null" /\ sceneIsPaused = FALSE /\ sceneGameActive = FALSE
  /\ SceneFresh
  /\ now = StartTime
  /\ lastEvent = NoEvent

-----------------------------------------------------------------------------
(* GameScene.spawnLog  (lines 348-409).  rand is Math.random() in          *)
(* thousandths; lvl is this.level when spawnLog runs.                      *)

LogTypeOf(rand, lvl) ==
  IF rand < 20 THEN "error"
  ELSE IF rand < 70 THEN "golden"
  ELSE IF rand < 250 + lvl * 50 THEN "hardwood"
  ELSE "normal"

NewLog(rand, lvl, x, speed) ==
  LET t == LogTypeOf(rand, lvl) IN
  [ logType       |-> t,
    hitsRemaining |-> CASE t = "error" -> 1 [] t = "golden" -> 1
                        [] t = "hardwood" -> 3 [] OTHER -> 2,
    points        |-> CASE t = "error" -> -100 [] t = "golden" -> 500
                        [] t = "hardwood" -> 100 [] OTHER -> 50,
    width         |-> CASE t = "error" -> 80 [] t = "hardwood" -> 70 [] OTHER -> 60,
    height        |-> CASE t = "error" -> 50 [] t = "hardwood" -> 45 [] OTHER -> 40,
    fallSpeed     |-> speed,
    x             |-> x,
    y             |-> SpawnY * 1000 ]

SpeedAllowed(speed, lvl) == speed >= 100 /\ speed <= 150 + lvl * 10

XAllowed(x) == x >= 50 /\ x <= FieldWidth - 50

-----------------------------------------------------------------------------
(* Scoring: chopAtPosition lines 469-482 *)

\* line 480: Math.max(1, Math.floor(this.combo / 5) + 1)
Multiplier(c) == Max(1, (c \div 5) + 1)

\* a hazard whose penalty, not the resulting score, is clamped
ErrorScoreClampedPenalty(s, pts) == s + Max(0, pts)

\* a hazard whose penalty is applied without the clamp
ErrorScoreUnclamped(s, pts) == s + pts

\* line 477: Math.max(0, this.score + log.points)
ErrorScore(s, pts) == Max(0, s + pts)

\* line 481: this.score += log.points * multiplier
ChopScore(s, pts, c) == s + pts * Multiplier(c)

\* maxCombo overwritten with the combo of the latest destroy
StatsAfterDestroyLatestCombo(gs, c) ==
  [gs EXCEPT !.chopsCount = @ + 1, !.maxCombo = c]

\* lines 504-508: setGameStats(prev => ...)
StatsAfterDestroy(gs, c) ==
  [gs EXCEPT !.chopsCount = @ + 1, !.maxCombo = Max(@, c)]

-----------------------------------------------------------------------------
(* Hit test: chopAtPosition lines 426-431.  getBounds() of a rectangle     *)
(* with origin 0.5 is [x - w/2, x + w/2] x [y - h/2, y + h/2]; the test is *)
(* inclusive.  Both sides are doubled to stay in integers.                 *)

Contains(l, px, py) ==
  /\ 2 * px >= 2 * l.x - l.width
  /\ 2 * px <= 2 * l.x + l.width
  /\ 2 * py * 1000 >= 2 * l.y - l.height * 1000
  /\ 2 * py * 1000 <= 2 * l.y + l.height * 1000

\* the loop run from the first index up
HitIndexOldest(ls, px, py) ==
  LET hits == {i \in 1..Len(ls) : Contains(ls[i], px, py)} IN
  IF hits = {} THEN 0 ELSE CHOOSE i \in hits : \A j \in hits : i <= j

\* the loop runs from the last index down and stops at the first match
HitIndex(ls, px, py) ==
  LET hits == {i \in 1..Len(ls) : Contains(ls[i], px, py)} IN
  IF hits = {} THEN 0 ELSE CHOOSE i \in hits : \A j \in hits : j <= i

\* the splice left out
RemoveAtNothing(ls, i) == ls

\* line 531: this.logs.splice(i, 1)
RemoveAt(ls, i) == [j \in 1..(Len(ls) - 1) |-> IF j < i THEN ls[j] ELSE ls[j + 1]]

-----------------------------------------------------------------------------
(* GameScene.chopAtPosition(x, y)  (lines 411-572) *)

\* a miss that also costs points
missPenaltyWithScore ==
  /\ combo' = 0
  /\ currentCombo' = 0
  /\ score' = Max(0, score - 10)
  /\ currentScore' = Max(0, score - 10)
  /\ lastEvent' = [msg |-> "Player missed", lostCombo |-> combo]
  /\ UNCHANGED << logs, gameStats, checksInFlight >>

\* lines 554-568: no log was hit
missPenalty ==
  /\ combo' = 0
  /\ currentCombo' = 0
  /\ lastEvent' = [msg |-> "Player missed", lostCombo |-> combo]
  /\ UNCHANGED << score, logs, gameStats, currentScore, checksInFlight >>

\* a damaging hit counted as a chop
logDamagedCounted(i, left) ==
  /\ logs' = [logs EXCEPT ![i].hitsRemaining = left]
  /\ gameStats' = [gameStats EXCEPT !.chopsCount = @ + 1]
  /\ lastEvent' = [msg |-> "Log damaged",
                   logType |-> logs[i].logType,
                   hitsRemaining |-> left]
  /\ UNCHANGED << score, combo, currentScore, currentCombo, checksInFlight >>

\* lines 432, 535-548: log i is hit and has left > 0 hits remaining
logDamaged(i, left) ==
  /\ logs' = [logs EXCEPT ![i].hitsRemaining = left]
  /\ lastEvent' = [msg |-> "Log damaged",
                   logType |-> logs[i].logType,
                   hitsRemaining |-> left]
  /\ UNCHANGED << score, combo, gameStats, currentScore, currentCombo,
                  checksInFlight >>

\* lines 514-522: every fifth destroy issues an achievement check, whose
\* promise is left to settle; chops is gameStatsRef.current.chopsCount
ChecksAfterDestroy(n, chops) == IF (chops + 1) % 5 = 0 THEN n + 1 ELSE n

chopAtPosition(px, py) ==
  /\ unit = "canvas"
  /\ gameRef = "game"
  \* the pointer reaches the canvas: the container is shown (line 1011) and
  \* the pause overlay does not cover it (lines 1021-1031)
  /\ ~showInstructions /\ ~isPaused
  /\ IF sceneIsPaused
       THEN \* line 413
            /\ lastEvent' = NoEvent
            /\ UNCHANGED << score, combo, logs, gameStats, currentScore, currentCombo,
                            checksInFlight >>
       ELSE LET i == HitIndex(logs, px, py) IN
            IF i = 0
              THEN missPenalty
              ELSE LET log == logs[i]
                       left == log.hitsRemaining - 1 IN
                   IF left <= 0
                     THEN \* lines 469-534: log destroyed
                          LET newCombo == IF log.logType = "error" THEN 0 ELSE combo + 1
                              newScore == IF log.logType = "error"
                                            THEN ErrorScore(score, log.points)
                                            ELSE ChopScore(score, log.points, newCombo) IN
                          /\ combo' = newCombo
                          /\ score' = newScore
                          /\ gameStats' = StatsAfterDestroy(gameStats, newCombo)
                          /\ currentScore' = newScore
                          /\ currentCombo' = newCombo
                          /\ checksInFlight' =
                               ChecksAfterDestroy(checksInFlight, gameStats.chopsCount)
                          /\ logs' = RemoveAt([logs EXCEPT ![i].hitsRemaining = left], i)
                          /\ lastEvent' = [msg |-> "Log destroyed",
                                           logType |-> log.logType,
                                           points |-> log.points,
                                           multiplier |-> IF log.logType = "error" THEN 0
                                                          ELSE Multiplier(newCombo)]
                     ELSE logDamaged(i, left)
  /\ UNCHANGED << unit, isPlaying, showInstructions, isInitializing, isPaused, gameActive,
                  initGame, endPending, sessionsStarted, gameRef, sceneIsPaused,
                  sceneGameActive, level, gameTime, logSpawnTimer, logSpawnRate,
                  gameStartTime, totalPausedTime, pauseStartTime, isGameActive,
                  now, managerVars, convexVars, hookVars, playersVars >>

-----------------------------------------------------------------------------
(* GameScene.update(time, delta)  (lines 704-773) *)

\* the pause start taken on every paused tick
PauseStartUnguarded(paused, pst, t) == IF paused THEN t ELSE 0

\* lines 706-713: the scene's pause bookkeeping; t is this.time.now
PauseStartAfter(paused, pst, t) ==
  IF paused /\ pst = 0 THEN t
  ELSE IF ~paused /\ pst > 0 THEN 0
  ELSE pst

TotalPausedAfter(paused, pst, tpt, t) ==
  IF ~paused /\ pst > 0 THEN tpt + (t - pst) ELSE tpt

\* the level counted from 0
LevelAfterFromZero(lvl, gt) ==
  LET newLevel == gt \div LEVEL_PERIOD_MS IN
  IF newLevel > lvl THEN newLevel ELSE lvl

\* lines 726-728
LevelAfter(lvl, gt) ==
  LET newLevel == (gt \div LEVEL_PERIOD_MS) + 1 IN
  IF newLevel > lvl THEN newLevel ELSE lvl

\* lines 727-729: the rate is recomputed only when the level rises
SpawnRateAfter(lvl, gt, rate) ==
  LET newLevel == (gt \div LEVEL_PERIOD_MS) + 1 IN
  IF newLevel > lvl
    THEN Max(MIN_INTERVAL_MS, BASE_INTERVAL_MS - newLevel * INTERVAL_STEP_MS)
    ELSE rate

\* line 742
Moved(ls, delta) == [i \in 1..Len(ls) |-> [ls[i] EXCEPT !.y = @ + ls[i].fallSpeed * delta]]

\* the boundary taken ten times too far
OffFieldFarMargin(l) == l.y > (FieldHeight + 10 * OffFieldMargin) * 1000

\* line 750: log.y > this.cameras.main.height + 50
OffField(l) == l.y > (FieldHeight + OffFieldMargin) * 1000

Remaining(ls) == SelectSeq(ls, LAMBDA l : ~OffField(l))

\* lines 680-697: the elapsed time updateUI shows, in ms before flooring
TotalElapsedTime(t) ==
  IF sceneGameActive /\ gameStartTime > 0
    THEN IF sceneIsPaused /\ pauseStartTime > 0
           THEN pauseStartTime - gameStartTime - totalPausedTime
           ELSE t - gameStartTime - totalPausedTime
    ELSE 0

update(delta, rand, x, speed) ==
  /\ unit = "canvas"
  /\ gameRef = "game"
  /\ now' = now + delta
  /\ pauseStartTime' = PauseStartAfter(sceneIsPaused, pauseStartTime, now')
  /\ totalPausedTime' = TotalPausedAfter(sceneIsPaused, pauseStartTime, totalPausedTime, now')
  /\ IF sceneIsPaused
       THEN \* lines 719-721
            /\ lastEvent' = NoEvent
            /\ UNCHANGED << gameTime, level, logSpawnRate, logSpawnTimer, logs,
                            combo, currentCombo >>
       ELSE LET gt      == gameTime + delta
                lvl     == LevelAfter(level, gt)
                rate    == SpawnRateAfter(level, gt, logSpawnRate)
                timer   == logSpawnTimer + delta
                spawn   == timer > rate
                withNew == IF spawn THEN Append(logs, NewLog(rand, lvl, x, speed)) ELSE logs
                moved   == Moved(withNew, delta)
                nFell   == Len(moved) - Len(Remaining(moved))
                fell    == nFell > 0 IN
            /\ SpeedAllowed(speed, lvl) /\ XAllowed(x)
            /\ gameTime' = gt
            /\ level' = lvl
            /\ logSpawnRate' = rate
            /\ logSpawnTimer' = IF spawn THEN 0 ELSE timer
            /\ logs' = Remaining(moved)
            /\ combo' = IF fell THEN 0 ELSE combo
            /\ currentCombo' = IF fell THEN 0 ELSE currentCombo
            /\ lastEvent' = IF fell THEN [msg |-> "Log fell off screen",
                                          lostCombo |-> IF nFell > 1 THEN 0 ELSE combo]
                            ELSE IF spawn THEN [msg |-> "Log spawned",
                                                logType |-> LogTypeOf(rand, lvl)]
                            ELSE NoEvent
  /\ UNCHANGED << unit, isPlaying, showInstructions, isInitializing, isPaused, gameActive,
                  currentScore, gameStats, initGame, endPending, sessionsStarted,
                  gameRef, sceneIsPaused, sceneGameActive, score, gameStartTime,
                  isGameActive, checksInFlight, managerVars,
                  convexVars, hookVars, playersVars >>

-----------------------------------------------------------------------------
(* The React component around the scene *)

\* GameScene.resetGame  (lines 775-810)
resetGame ==
  /\ score' = 0 /\ combo' = 0 /\ level' = 1 /\ gameTime' = 0
  /\ logSpawnTimer' = 0 /\ logSpawnRate' = BASE_INTERVAL_MS
  /\ gameStartTime' = now /\ totalPausedTime' = 0 /\ pauseStartTime' = 0
  /\ logs' = << >>
  /\ UNCHANGED isGameActive

\* handleStartGame (lines 874-904) and the game-init effect that the state
\* changes trigger (lines 117-134, 867-872).  The effect starts initGame()
\* unless a game exists; initGame closes over this render's isPaused and
\* gameActive, and the GameScene class it defines later sees those values.
handleStartGame ==
  /\ unit = "canvas"
  /\ showInstructions /\ ~isInitializing      \* the START button, lines 958, 995-997
  /\ sessionsStarted' = sessionsStarted + 1
  /\ showInstructions' = FALSE
  /\ gameActive' = TRUE
  /\ gameStats' = [chopsCount |-> 0, maxCombo |-> 0]
  /\ currentScore' = 0 /\ currentCombo' = 0
  /\ isPlaying' = TRUE
  /\ IF gameRef = "game"
       THEN /\ resetGame                       \* lines 882-888
            /\ UNCHANGED << isInitializing, initGame >>
       ELSE /\ isInitializing' = TRUE          \* line 132
            /\ initGame' = [running |-> TRUE, isPaused |-> isPaused, gameActive |-> TRUE]
            /\ UNCHANGED sceneVars
  /\ lastEvent' = NoEvent
  /\ UNCHANGED << unit, isPaused, endPending, gameRef, sceneIsPaused, sceneGameActive,
                  now, checksInFlight, managerVars,
                  convexVars, hookVars, playersVars >>

\* initGame() reaches new Phaser.Game(config) (line 855); the scene is
\* constructed and create() runs; finally setIsInitializing(false) (line 863).
\* The effect then runs again and returns at line 128 because the game exists;
\* the same holds for every later change of isPaused, so the scene keeps the
\* isPaused it was built with.
initGameDone ==
  /\ unit = "canvas"
  /\ initGame.running
  /\ gameRef' = "game"
  /\ sceneIsPaused' = initGame.isPaused
  /\ sceneGameActive' = initGame.gameActive
  /\ SceneFreshNext
  /\ isInitializing' = FALSE
  /\ initGame' = [initGame EXCEPT !.running = FALSE]
  /\ lastEvent' = NoEvent
  /\ UNCHANGED << unit, isPlaying, showInstructions, isPaused, gameActive, currentScore,
                  currentCombo, gameStats, endPending, sessionsStarted, now,
                  checksInFlight, managerVars,
                  convexVars, hookVars, playersVars >>

\* the PAUSE / RESUME button: setIsPaused(!isPaused)  (lines 1042-1052)
togglePause ==
  /\ unit = "canvas"
  /\ isPlaying
  /\ isPaused' = ~isPaused
  /\ lastEvent' = NoEvent
  /\ UNCHANGED << unit, reactVars, currentScore, currentCombo, gameRef, sceneIsPaused,
                  sceneGameActive, sceneVars, now, checksInFlight, managerVars,
                  convexVars, hookVars, playersVars >>

\* keydown-SPACE in the scene: setIsPaused(!isPaused) with the scene's isPaused
\* (lines 325-327)
keydownSpace ==
  /\ unit = "canvas"
  /\ gameRef = "game"
  /\ isPaused' = ~sceneIsPaused
  /\ lastEvent' = NoEvent
  /\ UNCHANGED << unit, reactVars, currentScore, currentCombo, gameRef, sceneIsPaused,
                  sceneGameActive, sceneVars, now, checksInFlight, managerVars,
                  convexVars, hookVars, playersVars >>

\* handleEndGame up to its first await (lines 906-924): stopGameTimer()
handleEndGame ==
  /\ unit = "canvas"
  /\ isPlaying                                 \* the END GAME button, lines 1034-1058
  /\ ~endPending          \* one end request at a time here; requests that overlap
                          \* are followed in endGame of the hook
  /\ endPending' = TRUE
  /\ isGameActive' = IF gameRef = "game" THEN FALSE ELSE isGameActive
  /\ lastEvent' = NoEvent
  /\ UNCHANGED << unit, isPlaying, showInstructions, isInitializing, isPaused, gameActive,
                  currentScore, currentCombo, gameStats, initGame, sessionsStarted,
                  gameRef, sceneIsPaused, sceneGameActive, score, combo, level,
                  gameTime, logs, logSpawnTimer, logSpawnRate, gameStartTime,
                  totalPausedTime, pauseStartTime, now, checksInFlight, managerVars,
                  convexVars, hookVars, playersVars >>

\* a handler without the try block: a rejection ends it
HandlerGoesOnIfSaved(outcome) == outcome = "saved"

\* lines 923-946: the awaits are inside try, and the catch of line 944 takes
\* every rejection, so the handler reaches line 948 whatever the outcome
HandlerGoesOn(outcome) == TRUE

\* handleEndGame after the awaits (lines 923-953): endGame() and the final
\* checkAndUnlockAchievements() resolved, or one of them rejected and
\* console.error reported it; then cleanupGame() destroys the game
\* (lines 94-114)
endGameDone(outcome) ==
  /\ unit = "canvas"
  /\ endPending
  /\ endPending' = FALSE
  /\ lastEvent' = IF outcome = "saved" THEN NoEvent
                  ELSE [msg |-> "Failed to save game"]
  /\ IF HandlerGoesOn(outcome)
       THEN /\ gameActive' = FALSE
            /\ gameRef' = "null"
            /\ sceneIsPaused' = FALSE /\ sceneGameActive' = FALSE
            /\ SceneFreshNext
            /\ isPlaying' = FALSE
            /\ showInstructions' = TRUE
            /\ currentScore' = 0 /\ currentCombo' = 0
       ELSE UNCHANGED << gameActive, gameRef, sceneIsPaused, sceneGameActive, sceneVars,
                         isPlaying, showInstructions, currentScore, currentCombo >>
  /\ UNCHANGED << unit, isInitializing, isPaused, gameStats, initGame, sessionsStarted,
                  now, checksInFlight, managerVars,
                  convexVars, hookVars, playersVars >>

-----------------------------------------------------------------------------
\* the promise of an achievement check issued at a destroy settles
\* (lines 517-521): a rejection goes to console.error and nowhere else
checkAchievementsSettled(outcome) ==
  /\ unit = "canvas"
  /\ checksInFlight > 0
  /\ checksInFlight' = checksInFlight - 1
  /\ lastEvent' = IF outcome = "resolved" THEN NoEvent
                  ELSE [msg |-> "console.error", from |-> "checkAchievements"]
  /\ UNCHANGED << unit, reactVars, isPaused, currentScore, currentCombo, gameRef,
                  sceneIsPaused, sceneGameActive, sceneVars, now, managerVars,
                  convexVars, hookVars, playersVars >>

-----------------------------------------------------------------------------
(* GameManager  (src/src/lib/game-manager.ts) *)

NullState == [initialized |-> FALSE]

AchievementIds == {"first_chop", "combo_master", "century_club", "golden_touch",
                   "speed_demon"}

\* createInitialAchievements  (lines 140-195); unlockedAt = 0 stands for an
\* unlockedAt that is not set
createInitialAchievements ==
  [a \in AchievementIds |->
     [progress |-> 0,
      maxProgress |-> CASE a = "first_chop" -> 1 [] a = "combo_master" -> 10
                        [] a = "century_club" -> 100 [] a = "golden_touch" -> 1
                        [] OTHER -> 50,
      unlocked |-> FALSE,
      unlockedAt |-> 0]]

\* createInitialGameState  (lines 116-138)
createInitialGameState ==
  [initialized |-> TRUE, score |-> 0, level |-> 1, totalChops |-> 0, bestCombo |-> 0,
   currentCombo |-> 0, logs |-> << >>, achievements |-> createInitialAchievements,
   fastestChop |-> 0]

\* initialize  (lines 63-114), with nothing saved in localStorage
initialize ==
  /\ unit = "manager"
  /\ ~gameState.initialized
  /\ gameState' = createInitialGameState
  /\ lastResult' = [call |-> "initialize"]
  /\ UNCHANGED << unit, nextLogId, canvasVars, convexVars, hookVars, playersVars >>

\* spawnLog  (lines 376-428): size then type modifiers
SizeHealth(size) == CASE size = "medium" -> 2 [] size = "large" -> 3
                      [] size = "giant" -> 5 [] OTHER -> 1

SizePoints(size) == CASE size = "medium" -> 20 [] size = "large" -> 40
                      [] size = "giant" -> 80 [] OTHER -> 10

TypeHealth(type, h) == CASE type = "hardwood" -> h + 1 [] type = "mystic" -> h * 2
                         [] OTHER -> h

TypePoints(type, p) == CASE type = "hardwood" -> p * 2 [] type = "golden" -> p * 5
                         [] type = "mystic" -> p * 10 [] OTHER -> p

spawnLog(type, size) ==
  /\ unit = "manager"
  /\ gameState.initialized
  /\ LET health == TypeHealth(type, SizeHealth(size))
         newLog == [id |-> nextLogId, type |-> type, size |-> size, health |-> health,
                    maxHealth |-> health, points |-> TypePoints(type, SizePoints(size)),
                    chopped |-> FALSE] IN
     gameState' = [gameState EXCEPT !.logs = Append(@, newLog)]
  /\ nextLogId' = nextLogId + 1
  /\ lastResult' = [call |-> "spawnLog"]
  /\ UNCHANGED << unit, canvasVars, convexVars, hookVars, playersVars >>

\* line 274: Math.min(Math.floor(currentCombo / 5) + 1, 5)
ComboMultiplier(c) == Min((c \div 5) + 1, 5)

\* bestCombo never raised
BestComboStale(best, c) == best

\* lines 280-282
BestComboAfter(best, c) == IF c > best THEN c ELSE best

\* the update without the test for an unlocked achievement
updateAchievementProgressUnguarded(achs, id, progress, t) ==
  IF id \notin DOMAIN achs THEN achs
  ELSE LET p == Min(progress, achs[id].maxProgress)
           u == p >= achs[id].maxProgress IN
       [achs EXCEPT ![id] = [progress |-> p, maxProgress |-> achs[id].maxProgress,
                             unlocked |-> u,
                             unlockedAt |-> IF u THEN t ELSE achs[id].unlockedAt]]

\* updateAchievementProgress  (lines 342-374), applied to the achievement map;
\* t is Date.now() of line 353
updateAchievementProgress(achs, id, progress, t) ==
  IF id \notin DOMAIN achs \/ achs[id].unlocked THEN achs
  ELSE LET p == Min(progress, achs[id].maxProgress)
           u == p >= achs[id].maxProgress IN
       [achs EXCEPT ![id] = [progress |-> p, maxProgress |-> achs[id].maxProgress,
                             unlocked |-> u,
                             unlockedAt |-> IF u THEN t ELSE achs[id].unlockedAt]]

\* lines 291-297
AchievementsAfterChop(achs, c, type, t) ==
  LET a1 == updateAchievementProgress(achs, "first_chop", 1, t)
      a2 == updateAchievementProgress(a1, "century_club", 1, t)
      a3 == updateAchievementProgress(a2, "combo_master", c, t) IN
  IF type = "golden" THEN updateAchievementProgress(a3, "golden_touch", 1, t) ELSE a3

\* lines 307-308; rt = -1 stands for an absent reactionTime, and 0 is falsy
FastestChopAfter(fastest, rt) ==
  IF rt # -1 /\ rt # 0 /\ (fastest = 0 \/ rt < fastest) THEN rt ELSE fastest

\* the find without the !l.chopped test
FindLogChoppedToo(ls, logId) ==
  LET found == {i \in 1..Len(ls) : ls[i].id = logId} IN
  IF found = {} THEN 0 ELSE CHOOSE i \in found : \A j \in found : i <= j

\* line 256: logs.find(l => l.id === logId && !l.chopped)
FindLog(ls, logId) ==
  LET found == {i \in 1..Len(ls) : ls[i].id = logId /\ ~ls[i].chopped} IN
  IF found = {} THEN 0 ELSE CHOOSE i \in found : \A j \in found : i <= j

\* Date.now() at a destroying chop, as a logical clock: the number of the chop
DateNow(gs) == gs.totalChops + 1

\* chopLog  (lines 251-340)
chopLog(logId, reactionTime) ==
  /\ unit = "manager"
  /\ gameState.initialized
  /\ LET i == FindLog(gameState.logs, logId) IN
     IF i = 0
       THEN /\ lastResult' = [call |-> "chopLog", success |-> FALSE, points |-> 0,
                              comboMultiplier |-> 1]
            /\ UNCHANGED gameState
       ELSE LET log == gameState.logs[i]
                health == log.health - 1 IN
            IF health <= 0
              THEN LET c == gameState.currentCombo + 1
                       m == ComboMultiplier(c)
                       pts == log.points * m IN
                   /\ gameState' =
                        [gameState EXCEPT
                           !.logs[i].health = health,
                           !.logs[i].chopped = TRUE,
                           !.currentCombo = c,
                           !.totalChops = @ + 1,
                           !.score = @ + pts,
                           !.bestCombo = BestComboAfter(@, c),
                           !.achievements =
                              AchievementsAfterChop(@, c, log.type, DateNow(gameState)),
                           !.fastestChop = FastestChopAfter(@, reactionTime)]
                   /\ lastResult' = [call |-> "chopLog", success |-> TRUE, points |-> pts,
                                     comboMultiplier |-> m]
              ELSE /\ gameState' = [gameState EXCEPT !.logs[i].health = health]
                   /\ lastResult' = [call |-> "chopLog", success |-> FALSE, points |-> 0,
                                     comboMultiplier |-> 1]
  /\ UNCHANGED << unit, nextLogId, canvasVars, convexVars, hookVars, playersVars >>

\* resetCombo  (lines 430-443)
resetCombo ==
  /\ unit = "manager"
  /\ gameState.initialized
  /\ gameState' = IF gameState.currentCombo = 0 THEN gameState
                  ELSE [gameState EXCEPT !.currentCombo = 0]
  /\ lastResult' = [call |-> "resetCombo"]
  /\ UNCHANGED << unit, nextLogId, canvasVars, convexVars, hookVars, playersVars >>

\* cleanupLogs  (lines 486-504): choppedAt is never set, so
\* Date.now() - undefined is NaN and every chopped log is dropped
cleanupLogs ==
  /\ unit = "manager"
  /\ gameState.initialized
  /\ gameState' = [gameState EXCEPT !.logs = SelectSeq(@, LAMBDA l : ~l.chopped)]
  /\ lastResult' = [call |-> "cleanupLogs"]
  /\ UNCHANGED << unit, nextLogId, canvasVars, convexVars, hookVars, playersVars >>

InitManager ==
  /\ gameState = NullState
  /\ nextLogId = 1
  /\ lastResult = [call |-> "none"]

-----------------------------------------------------------------------------
(* Stored game sessions  (src/convex/gameSessions.ts).  A session id is    *)
(* its index in gameSessions.  endedAt = 0 stands for an unset endedAt;    *)
(* Date.now() of the n-th endGameSession call is modelled as n.            *)

\* the row startGameSession inserts  (lines 10-19)
NewSession == [score |-> 0, level |-> 1, combo |-> 0, maxCombo |-> 0, endedAt |-> 0]

\* startGameSession  (lines 4-21)
startGameSession ==
  /\ unit = "convex"
  /\ gameSessions' = Append(gameSessions, NewSession)
  /\ UNCHANGED << unit, leaderboard, canvasVars, managerVars, hookVars, playersVars >>

\* line 41: Math.max(args.maxCombo, args.combo)
StoredMaxCombo(maxC, c) == Max(maxC, c)

\* updateGameSession  (lines 23-50)
updateGameSession(id, s, l, c, maxC) ==
  /\ unit = "convex"
  /\ id \in 1..Len(gameSessions)
  /\ gameSessions' = [gameSessions EXCEPT ![id] =
                        [@ EXCEPT !.score = s, !.level = l, !.combo = c,
                                  !.maxCombo = StoredMaxCombo(maxC, c)]]
  /\ UNCHANGED << unit, leaderboard, canvasVars, managerVars, hookVars, playersVars >>

\* lines 60-62: the patch of endGameSession
SessionsAfterEnd(id) == [gameSessions EXCEPT ![id].endedAt = Len(leaderboard) + 1]

\* lines 73-82: the insert of endGameSession
LeaderboardAfterEnd(id) ==
  Append(leaderboard, [sessionId |-> id,
                       score |-> gameSessions[id].score,
                       combo |-> gameSessions[id].maxCombo])

\* endGameSession  (lines 52-86)
endGameSession(id) ==
  /\ unit = "convex"
  /\ id \in 1..Len(gameSessions)
  /\ gameSessions' = SessionsAfterEnd(id)
  /\ leaderboard' = LeaderboardAfterEnd(id)
  /\ UNCHANGED << unit, canvasVars, managerVars, hookVars, playersVars >>

InitConvex ==
  /\ gameSessions = << >>
  /\ leaderboard = << >>

-----------------------------------------------------------------------------
(* The useConvexGame hook.  Its source exists twice: in src/convex/schema.ts *)
(* (lines 94-286) and, in an earlier form, in src/unnamed/part_000.          *)

HookVariants == {"convex/schema.ts", "unnamed/part_000"}

\* the achievements table as initializeAchievements fills it
\* (src/convex/achievements.ts lines 14-124)
AllAchievements ==
  [ first_chop       |-> [type |-> "chops", value |-> 1],
    combo_apprentice |-> [type |-> "combo", value |-> 10],
    combo_master     |-> [type |-> "combo", value |-> 50],
    combo_legend     |-> [type |-> "combo", value |-> 100],
    century_club     |-> [type |-> "chops_single_game", value |-> 100],
    thousand_cuts    |-> [type |-> "total_chops", value |-> 1000],
    score_rookie     |-> [type |-> "score", value |-> 1000],
    score_pro        |-> [type |-> "score", value |-> 10000],
    score_legend     |-> [type |-> "score", value |-> 100000],
    speed_demon      |-> [type |-> "reaction_time", value |-> 200],
    power_user       |-> [type |-> "power_ups_used", value |-> 4],
    survivor         |-> [type |-> "survival_time", value |-> 300] ]

\* createOrUpdatePlayer, the insert  (src/convex/players.ts lines 35-51)
NewPlayer ==
  [highScore |-> 0, totalScore |-> 0, totalChops |-> 0, achievements |-> << >>,
   stats |-> [gamesPlayed |-> 0, totalPlayTime |-> 0, fastestChop |-> 0,
              longestCombo |-> 0]]

\* the row updatePlayerStats patches in  (src/convex/players.ts lines 76-95);
\* fastestChop = -1 stands for an absent args.fastestChop
PlayerAfterStats(p, s, chops, c, playTime, fastestChop) ==
  [p EXCEPT
     !.totalScore = @ + s,
     !.totalChops = @ + chops,
     !.highScore = IF s > @ THEN s ELSE @,
     !.stats = [gamesPlayed   |-> @.gamesPlayed + 1,
                totalPlayTime |-> @.totalPlayTime + playTime,
                longestCombo  |-> Max(@.longestCombo, c),
                fastestChop   |-> IF fastestChop # -1 /\ fastestChop # 0
                                     /\ (@.fastestChop = 0 \/ fastestChop < @.fastestChop)
                                    THEN fastestChop ELSE @.fastestChop]]

\* updatePlayerStats  (src/convex/players.ts lines 63-97)
updatePlayerStats(s, chops, c, playTime, fastestChop) ==
  /\ unit = "hook"
  /\ player' = PlayerAfterStats(player, s, chops, c, playTime, fastestChop)
  /\ UNCHANGED << unit, hookVariant, unlockedAchievements, playerQuery, sessionId,
                  endCalls, canvasVars, managerVars, convexVars, playersVars >>

\* the player query delivers the stored row; the component renders again,
\* useCallback builds new callbacks (schema.ts line 256) and the effect of
\* RetroGameCanvas.tsx lines 77-79 puts the new one into checkAchievementsRef
playerQueryUpdated ==
  /\ unit = "hook"
  /\ playerQuery # player
  /\ playerQuery' = player
  /\ UNCHANGED << unit, hookVariant, player, unlockedAchievements, sessionId, endCalls,
                  canvasVars, managerVars, convexVars, playersVars >>

\* a switch that takes a kind it does not know for a met requirement
ShouldUnlockUnknownKinds(variant, requirement, stats, p) ==
  CASE requirement.type = "score" -> stats.score >= requirement.value
    [] requirement.type = "combo" -> stats.combo >= requirement.value
    [] requirement.type = "chops_single_game" -> stats.chops >= requirement.value
    [] requirement.type = "reaction_time" ->
         stats.reactionTime # -1 /\ stats.reactionTime <= requirement.value
    [] requirement.type = "total_chops" /\ variant = "convex/schema.ts" ->
         p.totalChops + stats.chops >= requirement.value
    [] OTHER -> TRUE

\* the switch of checkAndUnlockAchievements: schema.ts lines 229-247 have the
\* case "total_chops", part_000 lines 131-145 do not; reactionTime = -1
\* stands for an absent stats.reactionTime; p is the player of the closure
ShouldUnlock(variant, requirement, stats, p) ==
  CASE requirement.type = "score" -> stats.score >= requirement.value
    [] requirement.type = "combo" -> stats.combo >= requirement.value
    [] requirement.type = "chops_single_game" -> stats.chops >= requirement.value
    [] requirement.type = "reaction_time" ->
         stats.reactionTime # -1 /\ stats.reactionTime <= requirement.value
    [] requirement.type = "total_chops" /\ variant = "convex/schema.ts" ->
         p.totalChops + stats.chops >= requirement.value
    [] OTHER -> FALSE

\* Array.prototype.includes
Includes(list, id) == \E i \in 1..Len(list) : list[i] = id

\* the order in which the for loop of line 224 meets the achievements
CatalogOrder ==
  << "first_chop", "combo_apprentice", "combo_master", "combo_legend", "century_club",
     "thousand_cuts", "score_rookie", "score_pro", "score_legend", "speed_demon",
     "power_user", "survivor" >>

\* unlockAchievement  (players.ts lines 112-127), applied to the stored list
unlockAchievement(list, id) == IF Includes(list, id) THEN list ELSE Append(list, id)

\* the stored list after the unlockAchievement calls of one
\* checkAndUnlockAchievements, made in the order of the catalog
RECURSIVE AchievementsAfterUnlock(_, _, _)
AchievementsAfterUnlock(list, ids, n) ==
  IF n > Len(CatalogOrder) THEN list
  ELSE AchievementsAfterUnlock(
         IF CatalogOrder[n] \in ids THEN unlockAchievement(list, CatalogOrder[n]) ELSE list,
         ids, n + 1)

\* checkAndUnlockAchievements  (schema.ts lines 212-256, part_000 lines
\* 114-154) with playerId and allAchievements loaded.  Line 225 skips what the
\* player of the closure has; every other achievement whose requirement is met
\* goes to unlockAchievement and into the returned list.
checkAndUnlockAchievements(stats) ==
  /\ unit = "hook"
  /\ LET unlocked == {a \in DOMAIN AllAchievements :
                        /\ ~Includes(playerQuery.achievements, a)
                        /\ ShouldUnlock(hookVariant, AllAchievements[a], stats,
                                        playerQuery)} IN
     /\ unlockedAchievements' = unlocked
     /\ player' = [player EXCEPT !.achievements = AchievementsAfterUnlock(@, unlocked, 1)]
  /\ UNCHANGED << unit, hookVariant, playerQuery, sessionId, endCalls,
                  canvasVars, managerVars, convexVars, playersVars >>

\* ---- startGame and endGame of the hook

NoCall == [pc |-> "idle", sessionId |-> 0, stats |-> << >>]

\* startGame  (schema.ts lines 167-173), playerId loaded
startGame ==
  /\ unit = "hook"
  /\ gameSessions' = Append(gameSessions, NewSession)
  /\ sessionId' = Len(gameSessions) + 1
  /\ UNCHANGED << unit, leaderboard, hookVariant, player, unlockedAchievements,
                  playerQuery, endCalls, canvasVars, managerVars, playersVars >>

\* endGame(stats) up to its first await  (schema.ts lines 189-199); call k
\* keeps the sessionId of the render it was made in.  With sessionId null the
\* call returns at line 197.
endGame(k, stats) ==
  /\ unit = "hook"
  /\ endCalls[k].pc = "idle"
  /\ sessionId # 0
  /\ endCalls' = [endCalls EXCEPT ![k] = [pc |-> "endGameSession",
                                          sessionId |-> sessionId,
                                          stats |-> stats]]
  /\ UNCHANGED << unit, hookVariant, player, unlockedAchievements, playerQuery,
                  sessionId, canvasVars, managerVars, convexVars, playersVars >>

\* line 199: await endGameSession({ sessionId })
endGameAwaitEndGameSession(k) ==
  /\ unit = "hook"
  /\ endCalls[k].pc = "endGameSession"
  /\ gameSessions' = SessionsAfterEnd(endCalls[k].sessionId)
  /\ leaderboard' = LeaderboardAfterEnd(endCalls[k].sessionId)
  /\ endCalls' = [endCalls EXCEPT ![k].pc = "updatePlayerStats"]
  /\ UNCHANGED << unit, hookVariant, player, unlockedAchievements, playerQuery,
                  sessionId, canvasVars, managerVars, playersVars >>

\* lines 200-207: await updatePlayerStats({...})
endGameAwaitUpdatePlayerStats(k) ==
  /\ unit = "hook"
  /\ endCalls[k].pc = "updatePlayerStats"
  /\ LET st == endCalls[k].stats IN
     player' = PlayerAfterStats(player, st.score, st.chops, st.maxCombo, st.playTime,
                                st.fastestChop)
  /\ endCalls' = [endCalls EXCEPT ![k].pc = "setSessionId"]
  /\ UNCHANGED << unit, hookVariant, unlockedAchievements, playerQuery, sessionId,
                  canvasVars, managerVars, convexVars, playersVars >>

\* line 209: setSessionId(null)
endGameSetSessionId(k) ==
  /\ unit = "hook"
  /\ endCalls[k].pc = "setSessionId"
  /\ sessionId' = 0
  /\ endCalls' = [endCalls EXCEPT ![k] = NoCall]
  /\ UNCHANGED << unit, hookVariant, player, unlockedAchievements, playerQuery,
                  canvasVars, managerVars, convexVars, playersVars >>

\* the variant matters only to a behaviour of the hook
InitHook ==
  /\ hookVariant \in (IF unit = "hook" THEN HookVariants ELSE {"convex/schema.ts"})
  /\ player = NewPlayer
  /\ unlockedAchievements = {}
  /\ playerQuery = NewPlayer
  /\ sessionId = 0
  /\ endCalls = [k \in 1..MaxEndCalls |-> NoCall]

-----------------------------------------------------------------------------
(* The players table under createOrUpdatePlayer  (src/convex/players.ts     *)
(* lines 4-51).  A row's _id is its index.  Convex runs each mutation as one *)
(* serializable transaction.                                                *)

\* .first() of a query that found the rows with the indices in found: the
\* lowest index, 0 for null
First(found) ==
  IF found = {} THEN 0 ELSE CHOOSE i \in found : \A j \in found : i <= j

\* a name check that never finds the name
NameConflictNever(rows, name) == 0

\* lines 16-19
NameConflict(rows, name) == First({i \in 1..Len(rows) : rows[i].name = name})

createOrUpdatePlayer(userId, name) ==
  /\ unit = "players"
  /\ LET existing     == First({i \in 1..Len(players) : players[i].userId = userId})
                                                                 \* lines 10-13
         nameConflict == NameConflict(players, name) IN
     IF nameConflict # 0 /\ players[nameConflict].userId # userId
       THEN \* lines 21-23
            /\ createResult' = [call |-> "createOrUpdatePlayer", userId |-> userId,
                                name |-> name, error |-> "Name is already taken"]
            /\ UNCHANGED players
       ELSE IF existing # 0
         THEN \* lines 25-31
              /\ players' = [players EXCEPT ![existing].name = name]
              /\ createResult' = [call |-> "createOrUpdatePlayer", userId |-> userId,
                                  name |-> name, id |-> existing]
         ELSE \* lines 33-49
              /\ players' = Append(players, [userId |-> userId, name |-> name])
              /\ createResult' = [call |-> "createOrUpdatePlayer", userId |-> userId,
                                  name |-> name, id |-> Len(players) + 1]
  /\ UNCHANGED << unit, canvasVars, managerVars, convexVars, hookVars >>

InitPlayers ==
  /\ players = << >>
  /\ createResult = [call |-> "none"]

-----------------------------------------------------------------------------
(* Specification *)

Units == {"canvas", "manager", "convex", "hook", "players"}

Init ==
  /\ unit \in Units
  /\ InitCanvas
  /\ InitManager
  /\ InitConvex
  /\ InitHook
  /\ InitPlayers

Next ==
  \/ sessionsStarted < MaxSessions /\ handleStartGame
  \/ initGameDone
  \/ togglePause
  \/ keydownSpace
  \/ handleEndGame
  \/ \E outcome \in EndOutcomes : endGameDone(outcome)
  \/ \E delta \in Deltas, rand \in Rands, x \in SpawnXs, speed \in FallSpeeds :
       now + delta <= MaxTime /\ update(delta, rand, x, speed)
  \/ \E px \in ClickXs, py \in ClickYs :
       gameStats.chopsCount < MaxChops /\ chopAtPosition(px, py)
  \/ initialize
  \/ \E type \in ManagerTypes, size \in ManagerSizes :
       nextLogId <= MaxManagerLogs /\ spawnLog(type, size)
  \/ \E logId \in 1..(MaxManagerLogs + 1), rt \in ReactionTimes : chopLog(logId, rt)
  \/ resetCombo
  \/ cleanupLogs
  \/ Len(gameSessions) < MaxStoredSessions /\ startGameSession
  \/ \E id \in 1..MaxStoredSessions, s \in SessionScores, l \in SessionLevels,
        c \in SessionCombos, maxC \in SessionCombos :
       updateGameSession(id, s, l, c, maxC)
  \/ \E id \in 1..MaxStoredSessions :
       Len(leaderboard) < MaxLeaderboardRows /\ endGameSession(id)
  \/ \E s \in PlayedScores, chops \in PlayedChops, c \in PlayedCombos,
        playTime \in PlayTimes, fastestChop \in PlayedFastestChops :
       player.stats.gamesPlayed < MaxGamesPlayed
         /\ updatePlayerStats(s, chops, c, playTime, fastestChop)
  \/ \E stats \in CheckStats : checkAndUnlockAchievements(stats)
  \/ playerQueryUpdated
  \/ \E userId \in UserIds, name \in Names : createOrUpdatePlayer(userId, name)

Spec == Init /\ [][Next]_vars

-----------------------------------------------------------------------------
(* A long streak on the canvas: one session in which every spawned log is  *)
(* an ordinary one (Math.random() >= 0.25 + level * 0.05) and the player   *)
(* clicks where the logs are.                                              *)

InitStreak == Init /\ unit = "canvas"

NextStreak ==
  \/ sessionsStarted < 1 /\ handleStartGame
  \/ initGameDone
  \/ \E delta \in StreakDeltas, rand \in StreakRands, x \in SpawnXs, speed \in FallSpeeds :
       now + delta <= MaxStreakTime /\ update(delta, rand, x, speed)
  \/ \E px \in SpawnXs, py \in StreakClickYs :
       gameStats.chopsCount < MaxStreakChops /\ chopAtPosition(px, py)

SpecStreak == InitStreak /\ [][NextStreak]_vars

-----------------------------------------------------------------------------
(* Overlapping logs on the canvas: one session with short ticks in which a *)
(* fast log catches up with a slow one spawned before it.                  *)

NextOverlap ==
  \/ sessionsStarted < 1 /\ handleStartGame
  \/ initGameDone
  \/ \E delta \in OverlapDeltas, rand \in OverlapRands, x \in SpawnXs,
        speed \in OverlapSpeeds :
       now + delta <= MaxOverlapTime /\ update(delta, rand, x, speed)
  \/ \E px \in SpawnXs, py \in OverlapClickYs :
       gameStats.chopsCount < MaxOverlapChops /\ chopAtPosition(px, py)

SpecOverlap == InitStreak /\ [][NextOverlap]_vars

-----------------------------------------------------------------------------
(* A long session on the canvas: seven and a half minutes of play, in which *)
(* the level rises every 30 seconds.                                        *)

NextLevels ==
  \/ sessionsStarted < 1 /\ handleStartGame
  \/ initGameDone
  \/ \E delta \in LevelDeltas, rand \in LevelRands, x \in SpawnXs, speed \in FallSpeeds :
       now + delta <= MaxLevelTime /\ update(delta, rand, x, speed)

SpecLevels == InitStreak /\ [][NextLevels]_vars

-----------------------------------------------------------------------------
(* Persistence calls that fail: one session of one-hit logs that lasts     *)
(* beyond its fifth destroy, the achievement check of that destroy         *)
(* resolving or rejecting, and the end of the session with its calls       *)
(* resolving or rejecting.                                                 *)

NextPersist ==
  \/ sessionsStarted < 1 /\ handleStartGame
  \/ initGameDone
  \/ \E delta \in StreakDeltas, rand \in PersistRands, x \in SpawnXs, speed \in FallSpeeds :
       now + delta <= MaxPersistTime /\ update(delta, rand, x, speed)
  \/ \E px \in SpawnXs, py \in StreakClickYs :
       gameStats.chopsCount < MaxPersistChops /\ chopAtPosition(px, py)
  \/ \E outcome \in CheckOutcomes : checkAchievementsSettled(outcome)
  \/ handleEndGame
  \/ \E outcome \in EndOutcomes : endGameDone(outcome)

SpecPersist == InitStreak /\ [][NextPersist]_vars

-----------------------------------------------------------------------------
(* The game manager with one-hit logs: combos built, reset and built again *)

InitCombo == Init /\ unit = "manager"

NextCombo ==
  \/ initialize
  \/ \E type \in ComboTypes, size \in ComboSizes :
       nextLogId <= MaxComboLogs /\ spawnLog(type, size)
  \/ \E logId \in 1..MaxComboLogs, rt \in ComboReactionTimes : chopLog(logId, rt)
  \/ resetCombo
  \/ cleanupLogs

SpecCombo == InitCombo /\ [][NextCombo]_vars

-----------------------------------------------------------------------------
(* The game manager over a hundred one-hit logs, one log at a time; the     *)
(* combo is reset only among the first chops.                               *)

NextCentury ==
  \/ initialize
  \/ /\ gameState.initialized
     /\ Len(gameState.logs) = 0
     /\ nextLogId <= MaxCenturyLogs
     /\ spawnLog("regular", "small")
  \/ \E logId \in {nextLogId - 1}, rt \in ComboReactionTimes : chopLog(logId, rt)
  \/ gameState.initialized /\ gameState.totalChops <= MaxCenturyResetChops /\ resetCombo
  \/ cleanupLogs

SpecCentury == InitCombo /\ [][NextCentury]_vars

-----------------------------------------------------------------------------
(* The hook under end requests: a session is started when none is open, and *)
(* endGame may be called again while an earlier call is still awaiting.     *)

InitEnd == Init /\ unit = "hook"

NextEnd ==
  \/ Len(gameSessions) < MaxEndSessions /\ sessionId = 0 /\ startGame
  \/ \E k \in 1..MaxEndCalls, stats \in EndStats : endGame(k, stats)
  \/ \E k \in 1..MaxEndCalls : endGameAwaitEndGameSession(k)
  \/ \E k \in 1..MaxEndCalls : endGameAwaitUpdatePlayerStats(k)
  \/ \E k \in 1..MaxEndCalls : endGameSetSessionId(k)

SpecEnd == InitEnd /\ [][NextEnd]_vars

-----------------------------------------------------------------------------
(* The players table alone *)

InitPlayersOnly == Init /\ unit = "players"

NextPlayers == \E userId \in UserIds, name \in Names : createOrUpdatePlayer(userId, name)

SpecPlayers == InitPlayersOnly /\ [][NextPlayers]_vars

-----------------------------------------------------------------------------
(* Claims *)

\* which step of a behaviour is which event
DestroyedStep == lastEvent'.msg = "Log destroyed"
HazardDestroyedStep == DestroyedStep /\ lastEvent'.logType = "error"
TargetDestroyedStep == DestroyedStep /\ lastEvent'.logType # "error"
ManagerChopStep == lastResult'.call = "chopLog" /\ lastResult'.success
TickStep == now' # now

\* C1: every destroy of a non-hazard target adds exactly
\* pointValue * min(floor(c/5)+1, 5) to the score, c being the combo after
\* its increment, so the multiplier never exceeds 5; five destroys in a row
\* of 50-point ordinary targets from score 0 and combo 0 give combo 5 and
\* score 300.  This is the statement as the specification makes it, for the
\* canvas and for the game manager.
C1_CappedMultiplierScoring ==
  [][ /\ TargetDestroyedStep =>
           /\ combo' = combo + 1
           /\ score' = score + lastEvent'.points * Min((combo' \div 5) + 1, 5)
           /\ (combo' = 5 /\ gameStats'.chopsCount = 5 /\ gameStats'.maxCombo = 5
                 /\ score = 200 /\ lastEvent'.points = 50) => score' = 300
      /\ ManagerChopStep =>
           /\ gameState'.currentCombo = gameState.currentCombo + 1
           /\ lastResult'.comboMultiplier = Min((gameState'.currentCombo \div 5) + 1, 5)
           /\ gameState'.score = gameState.score + lastResult'.points
    ]_vars

\* C2: destroying a hazard ('error') target, from any score s >= 0 and any
\* combo, sets the combo to 0 and the score to max(0, s + pointValue), the
\* pointValue being negative.
C2_HazardDestroy ==
  [][ HazardDestroyedStep =>
        /\ lastEvent'.points < 0
        /\ combo' = 0
        /\ currentCombo' = 0
        /\ score' = IF score + lastEvent'.points < 0 THEN 0
                    ELSE score + lastEvent'.points
    ]_vars

\* a hazard destroyed after one ordinary log: 50 - 100 is clamped to 0
C2_Witness ==
  /\ lastEvent.msg = "Log destroyed" /\ lastEvent.logType = "error"
  /\ gameStats.chopsCount = 2 /\ gameStats.maxCombo = 1
  /\ score = 0 /\ combo = 0

\* C3: in every reachable state the session score is an integer >= 0, in the
\* canvas (scene and displayed score) and in the game manager.
C3_ScoreNonNegative ==
  /\ score \in Nat
  /\ currentScore \in Nat
  /\ gameState.initialized => gameState.score \in Nat

\* a hazard destroyed at score 0
C3_Witness ==
  /\ lastEvent.msg = "Log destroyed" /\ lastEvent.logType = "error"
  /\ gameStats.chopsCount = 1
  /\ score = 0

\* C4: in every reachable state the recorded best combo is >= the current
\* combo: bestCombo / currentCombo of the game manager, maxCombo / combo of
\* the canvas, and maxCombo / combo of every stored game session.
C4_BestComboAtLeastCombo ==
  /\ gameState.initialized => gameState.bestCombo >= gameState.currentCombo
  /\ gameStats.maxCombo >= combo
  /\ gameStats.maxCombo >= currentCombo
  /\ \A i \in 1..Len(gameSessions) : gameSessions[i].maxCombo >= gameSessions[i].combo

\* the manager after two chops in a row
C4_Witness ==
  /\ gameState.initialized
  /\ gameState.currentCombo = 2 /\ gameState.bestCombo = 2

\* C5: within one session the best combo never decreases, whatever the
\* event: destroy, damage, miss, off-field removal, pause, resume or tick.
C5_BestComboNeverDecreases ==
  [][ /\ (gameState.initialized /\ gameState'.initialized) =>
            gameState'.bestCombo >= gameState.bestCombo
      /\ sessionsStarted' = sessionsStarted =>
            gameStats'.maxCombo >= gameStats.maxCombo
    ]_vars

\* a miss after a combo of 2: the best combo stays
C5_Witness ==
  /\ lastEvent.msg = "Player missed" /\ lastEvent.lostCombo = 2
  /\ combo = 0 /\ gameStats.maxCombo = 2

\* C6: a pointer event that hits no target sets the combo to 0 and leaves
\* score, best combo, number of chops, level and the active targets as they
\* were; so does the manager's resetCombo.
C6_MissResetsComboOnly ==
  [][ /\ \A px \in ClickXs, py \in ClickYs :
            (chopAtPosition(px, py) /\ HitIndex(logs, px, py) = 0) =>
               /\ combo' = 0
               /\ currentCombo' = 0
               /\ UNCHANGED << score, currentScore, gameStats, level, logs >>
      /\ lastResult'.call = "resetCombo" =>
            /\ gameState'.currentCombo = 0
            /\ gameState' = [gameState EXCEPT !.currentCombo = 0]
    ]_vars

\* a miss that lost a combo of 2 with points on the board
C6_Witness ==
  /\ lastEvent.msg = "Player missed" /\ lastEvent.lostCombo = 2
  /\ combo = 0 /\ score >= 100 /\ gameStats.chopsCount = 2

\* a session the player has started and not ended, with its game built
SessionStarted == gameRef = "game" /\ isPlaying /\ ~showInstructions /\ ~endPending

PointerStep == \E px \in ClickXs, py \in ClickYs : chopAtPosition(px, py)

\* C7: while the session is paused (the player has toggled pause and not
\* toggled it back) no tick and no pointer event changes gameplay state:
\* level, spawn interval, spawn timer, the active targets with their
\* positions and hitsRemaining, score and combo stay as they were.
C7_PausedStateFrozen ==
  [][ (SessionStarted /\ isPaused /\ isPaused' /\ (TickStep \/ PointerStep)) =>
        UNCHANGED << level, logSpawnRate, logSpawnTimer, logs, score, combo >>
    ]_vars

\* C8: the pause-aware elapsed time of a started session is
\* now - startedAt - (completed paused intervals) while running and is frozen
\* while paused.  Between two ticks of a running session it therefore grows
\* by exactly the time between them, and between two ticks of a paused one
\* it does not change.
C8_PauseAwareElapsedTime ==
  [][ (SessionStarted /\ TickStep) =>
        /\ (~isPaused /\ pauseStartTime = 0) =>
              TotalElapsedTime(now)' - TotalElapsedTime(now) = now' - now
        /\ (isPaused /\ pauseStartTime > 0) =>
              TotalElapsedTime(now)' = TotalElapsedTime(now)
    ]_vars

\* C9: a tick that finds the scene paused with the pause already begun does
\* not move pauseStartTime, and a tick that finds it running with no pause
\* begun changes neither totalPausedTime nor pauseStartTime.
C9_PauseResumeIdempotent ==
  [][ TickStep =>
        /\ (sceneIsPaused /\ pauseStartTime > 0) =>
              UNCHANGED << pauseStartTime, totalPausedTime >>
        /\ (~sceneIsPaused /\ pauseStartTime = 0) =>
              UNCHANGED << pauseStartTime, totalPausedTime >>
    ]_vars

\* a paused scene that ticked again after the tick that began the pause
C9_Witness ==
  /\ gameRef = "game" /\ sceneIsPaused
  /\ pauseStartTime > 0 /\ now > pauseStartTime

\* C10: after every non-paused tick the level is
\* floor(accumulated active play time / 30000) + 1, and during one session
\* the level never decreases.
C10_LevelFromPlayTime ==
  [][ /\ (TickStep /\ ~sceneIsPaused) => level' = (gameTime' \div 30000) + 1
      /\ (gameRef = "game" /\ gameRef' = "game" /\ sessionsStarted' = sessionsStarted) =>
            level' >= level
    ]_vars

\* the level has risen to 2 after 30 s of play
C10_Witness ==
  /\ gameRef = "game" /\ ~sceneIsPaused
  /\ gameTime >= 30000 /\ level = 2

\* C11: at every tick of a running session the spawn interval in force is
\* max(500, 2000 - level * 100) for the level in force, level 1 included,
\* and it never increases as play time grows.
C11_SpawnIntervalFromLevel ==
  [][ (SessionStarted /\ TickStep /\ ~sceneIsPaused) =>
        /\ logSpawnRate' = (IF 2000 - level' * 100 > 500 THEN 2000 - level' * 100 ELSE 500)
        /\ logSpawnRate' <= logSpawnRate
    ]_vars

\* every point a pointer event of the model can carry
PointerXs == ClickXs \cup SpawnXs
PointerYs == ClickYs \cup StreakClickYs \cup OverlapClickYs

\* C12: one pointer event changes hitsRemaining of at most one target; when
\* several active targets contain the point, the one affected is the most
\* recently spawned of them (the last of them in spawn order), and every
\* other target is unchanged.
C12_OneTargetFrontMost ==
  [][ \A px \in PointerXs, py \in PointerYs :
        chopAtPosition(px, py) =>
          LET hits == {j \in 1..Len(logs) : Contains(logs[j], px, py)} IN
          \/ logs' = logs
          \/ \E i \in hits :
               /\ \A j \in hits : j <= i
               /\ \/ /\ Len(logs') = Len(logs)
                     /\ logs'[i] = [logs[i] EXCEPT !.hitsRemaining = @ - 1]
                     /\ \A j \in 1..Len(logs) : j # i => logs'[j] = logs[j]
                  \/ /\ Len(logs') = Len(logs) - 1
                     /\ \A j \in 1..Len(logs') :
                          logs'[j] = IF j < i THEN logs[j] ELSE logs[j + 1]
    ]_vars

\* two logs contain the point and the later one has taken the hit
C12_Witness ==
  /\ lastEvent.msg = "Log damaged"
  /\ \E px \in SpawnXs, py \in OverlapClickYs :
       \E i, j \in 1..Len(logs) :
         /\ i < j
         /\ Contains(logs[i], px, py) /\ Contains(logs[j], px, py)
         /\ logs[i].hitsRemaining = 2 /\ logs[j].hitsRemaining = 1

\* the hits a canvas log of each type is spawned with
SpawnHits(logType) ==
  CASE logType = "error" -> 1 [] logType = "golden" -> 1
    [] logType = "hardwood" -> 3 [] OTHER -> 2

\* C13: every active target has 1 <= hitsRemaining <= maxHits in every
\* reachable state: on the canvas every log of the list, in the game manager
\* every log not yet chopped.  A hit that brings a target to 0 takes it out of
\* the active set in the same call.
C13_HitsRemainingInRange ==
  /\ \A i \in 1..Len(logs) :
       logs[i].hitsRemaining >= 1 /\ logs[i].hitsRemaining <= SpawnHits(logs[i].logType)
  /\ gameState.initialized =>
       \A i \in 1..Len(gameState.logs) :
         ~gameState.logs[i].chopped =>
            /\ gameState.logs[i].health >= 1
            /\ gameState.logs[i].health <= gameState.logs[i].maxHealth

\* one log was destroyed and another, hit once, is still active
C13_Witness ==
  /\ gameStats.chopsCount >= 1
  /\ \E i \in 1..Len(logs) :
       logs[i].hitsRemaining >= 1 /\ logs[i].hitsRemaining < SpawnHits(logs[i].logType)

\* C14: a hit that leaves the target with hitsRemaining > 0 (a damage event)
\* lowers that target's hitsRemaining by exactly 1, keeps it in the active
\* set, and leaves score, combo, best combo and the chop counter unchanged;
\* on the canvas and in the game manager.
C14_DamageOnlyDecrements ==
  [][ /\ lastEvent'.msg = "Log damaged" =>
           /\ \E i \in 1..Len(logs) :
                /\ logs[i].hitsRemaining > 1
                /\ logs' = [logs EXCEPT ![i].hitsRemaining = @ - 1]
           /\ UNCHANGED << score, combo, currentScore, currentCombo, gameStats >>
      /\ (lastResult'.call = "chopLog" /\ ~lastResult'.success /\ gameState' # gameState) =>
           \E i \in 1..Len(gameState.logs) :
             /\ gameState.logs[i].health > 1
             /\ ~gameState.logs[i].chopped
             /\ gameState' = [gameState EXCEPT !.logs[i].health = @ - 1]
    ]_vars

\* a log damaged while a combo and a score stand
C14_Witness ==
  /\ lastEvent.msg = "Log damaged"
  /\ score > 0 /\ combo > 0 /\ gameStats.chopsCount > 0

\* C15: chopLog called with an id that is not in the log list, or that
\* belongs to an already chopped log, returns
\* {success: false, points: 0, comboMultiplier: 1} and leaves the whole game
\* state unchanged.
C15_ChopUnknownLogIsNoOp ==
  [][ lastResult'.call = "chopLog" =>
        \A logId \in 1..(MaxManagerLogs + 1) :
          ( /\ ~\E i \in 1..Len(gameState.logs) :
                  gameState.logs[i].id = logId /\ ~gameState.logs[i].chopped
            /\ \E rt \in ReactionTimes : chopLog(logId, rt) ) =>
            /\ gameState' = gameState
            /\ lastResult' = [call |-> "chopLog", success |-> FALSE,
                              points |-> 0, comboMultiplier |-> 1]
    ]_vars

\* a chopLog that failed while every log of the list is already chopped
C15_Witness ==
  /\ gameState.initialized
  /\ lastResult.call = "chopLog" /\ ~lastResult.success
  /\ Len(gameState.logs) >= 1
  /\ \A i \in 1..Len(gameState.logs) : gameState.logs[i].chopped
  /\ gameState.score > 0

\* C16: on a non-paused tick every target, of any category, whose position
\* has passed the far boundary (y > field height + 50) is removed in that
\* tick, the combo is reset to 0 and the score does not change; no target
\* beyond the boundary is left in the active set, and no other target is
\* removed.
C16_OffFieldRemoval ==
  [][ (TickStep /\ ~sceneIsPaused) =>
        LET beyond(y) == y > (600 + 50) * 1000
            gone == {i \in 1..Len(logs) :
                       beyond(logs[i].y + logs[i].fallSpeed * (now' - now))} IN
        /\ \A i \in 1..Len(logs') : ~beyond(logs'[i].y)
        /\ Len(logs') >= Len(logs) - Cardinality(gone)
        /\ UNCHANGED << score, currentScore >>
        /\ gone # {} => (combo' = 0 /\ currentCombo' = 0)
    ]_vars

\* a log fell off and took a combo with it, the score standing
C16_Witness ==
  /\ lastEvent.msg = "Log fell off screen" /\ lastEvent.lostCombo > 0
  /\ combo = 0 /\ score > 0
  /\ \A i \in 1..Len(logs) : logs[i].y <= (600 + 50) * 1000

\* C17: the session chop counter counts exactly the non-hazard destroys: it
\* grows by 1, together with the combo, on each non-hazard destroy, and is
\* unchanged by hazard destroys, damage events, misses and off-field
\* removals; chopsCount on the canvas, totalChops in the game manager.
C17_ChopCounterCountsTargets ==
  [][ /\ TargetDestroyedStep =>
           /\ gameStats'.chopsCount = gameStats.chopsCount + 1
           /\ combo' = combo + 1
      /\ HazardDestroyedStep => gameStats'.chopsCount = gameStats.chopsCount
      /\ lastEvent'.msg \in {"Log damaged", "Player missed", "Log fell off screen"} =>
           gameStats'.chopsCount = gameStats.chopsCount
      /\ ManagerChopStep =>
           /\ gameState'.totalChops = gameState.totalChops + 1
           /\ gameState'.currentCombo = gameState.currentCombo + 1
      /\ ((lastResult'.call = "chopLog" /\ ~lastResult'.success)
            \/ lastResult'.call = "resetCombo") =>
           gameState'.totalChops = gameState.totalChops
    ]_vars

\* C18: once an achievement is unlocked every later progress update for it
\* is a no-op: its progress, its unlocked flag and its unlockedAt never
\* change again, whatever chops follow.
C18_UnlockedAchievementFrozen ==
  [][ (gameState.initialized /\ gameState'.initialized) =>
        \A a \in AchievementIds :
          gameState.achievements[a].unlocked =>
            gameState'.achievements[a] = gameState.achievements[a]
    ]_vars

\* a second chop after the one that unlocked first_chop
C18_Witness ==
  /\ gameState.initialized
  /\ gameState.totalChops = 2
  /\ gameState.achievements["first_chop"].unlocked
  /\ gameState.achievements["first_chop"].unlockedAt = 1

\* C19: for every achievement not yet unlocked the recorded progress never
\* decreases, whatever chops and combo resets happen; the progress recorded
\* is min(value, maxProgress) and so never exceeds maxProgress; and the
\* achievement is unlocked exactly when its progress has reached maxProgress.
C19_ProgressMonotone ==
  [][ (gameState.initialized /\ gameState'.initialized) =>
        \A a \in AchievementIds :
          LET before == gameState.achievements[a]
              after  == gameState'.achievements[a] IN
          /\ ~before.unlocked => after.progress >= before.progress
          /\ after.progress <= after.maxProgress
          /\ after.unlocked <=> (after.progress >= after.maxProgress)
    ]_vars

\* C20: checkAndUnlockAchievements unlocks a not yet unlocked achievement of
\* the catalog if and only if the predicate of its requirement kind holds:
\* score >= value for 'score', combo >= value for 'combo', session chops >=
\* value for 'chops_single_game', lifetime totalChops + session chops >= value
\* for 'total_chops', reactionTime defined and <= value for 'reaction_time';
\* in every variant of the hook.
C20_UnlockIffPredicate ==
  [][ \A stats \in CheckStats :
        checkAndUnlockAchievements(stats) =>
          \A a \in DOMAIN AllAchievements :
            LET kind  == AllAchievements[a].type
                value == AllAchievements[a].value
                holds == \/ kind = "score" /\ stats.score >= value
                         \/ kind = "combo" /\ stats.combo >= value
                         \/ kind = "chops_single_game" /\ stats.chops >= value
                         \/ kind = "total_chops"
                              /\ playerQuery.totalChops + stats.chops >= value
                         \/ kind = "reaction_time" /\ stats.reactionTime # -1
                              /\ stats.reactionTime <= value IN
            (~Includes(player.achievements, a)
               /\ ~Includes(playerQuery.achievements, a)
               /\ kind \in {"score", "combo", "chops_single_game", "total_chops",
                            "reaction_time"}) =>
              (Includes(player'.achievements, a) <=> holds)
    ]_vars

\* the requirement kinds the switch of checkAndUnlockAchievements has a case
\* for, in each variant of the hook
RecognisedKinds ==
  IF hookVariant = "convex/schema.ts"
    THEN {"score", "combo", "chops_single_game", "reaction_time", "total_chops"}
    ELSE {"score", "combo", "chops_single_game", "reaction_time"}

\* the requirement of achievement a is met by the stats of a call
RequirementMet(a, stats) ==
  LET kind  == AllAchievements[a].type
      value == AllAchievements[a].value IN
  \/ kind = "score" /\ stats.score >= value
  \/ kind = "combo" /\ stats.combo >= value
  \/ kind = "chops_single_game" /\ stats.chops >= value
  \/ kind = "total_chops" /\ playerQuery.totalChops + stats.chops >= value
  \/ kind = "reaction_time" /\ stats.reactionTime # -1 /\ stats.reactionTime <= value

\* a step of checkAndUnlockAchievements: of the steps of the hook it alone
\* leaves the closure's player, the played games, the session id, the endGame
\* calls and the stored sessions as they are
CheckStep ==
  /\ unit = "hook"
  /\ UNCHANGED << playerQuery, sessionId, endCalls, gameSessions >>
  /\ player'.stats = player.stats

\* C21: an achievement whose requirement kind the evaluator has no case for
\* ('chops', 'power_ups_used', 'survival_time' of the seeded catalog) is
\* skipped by checkAndUnlockAchievements: it is not in the returned list, the
\* stored list does not get it, the call returns its list all the same, and
\* the other achievements are evaluated as if the skipped ones were absent:
\* the returned list is, for the stats of the call, exactly the achievements
\* of a known kind that the closure's player lacks and whose requirement is
\* met, and exactly the returned ones are added to the stored list.
C21_UnknownKindSkipped ==
  [][ CheckStep =>
        /\ \A a \in DOMAIN AllAchievements :
             AllAchievements[a].type \notin RecognisedKinds =>
               /\ a \notin unlockedAchievements'
               /\ ~Includes(player'.achievements, a)
        /\ \E stats \in CheckStats :
             unlockedAchievements' =
               {a \in DOMAIN AllAchievements :
                  /\ AllAchievements[a].type \in RecognisedKinds
                  /\ ~Includes(playerQuery.achievements, a)
                  /\ RequirementMet(a, stats)}
        /\ \A a \in DOMAIN AllAchievements :
             Includes(player'.achievements, a)
               <=> (Includes(player.achievements, a) \/ a \in unlockedAchievements')
    ]_vars

\* a call with 100 chops unlocked century_club and left first_chop, whose
\* kind is 'chops', locked
C21_Witness ==
  /\ "century_club" \in unlockedAchievements
  /\ Includes(player.achievements, "century_club")
  /\ ~Includes(player.achievements, "first_chop")
  /\ ~Includes(player.achievements, "power_user")

\* C22: achievement evaluation is idempotent: whatever checkAndUnlockAchievements
\* calls are made, with the same or with growing stats, an achievement that
\* the player's stored list already holds is not in the list a call returns,
\* is not written a second time, and the stored list never holds an id twice.
C22_EvaluationIdempotent ==
  [][ CheckStep =>
        /\ \A a \in DOMAIN AllAchievements :
             Includes(player.achievements, a) => a \notin unlockedAchievements'
        /\ \A i \in 1..Len(player.achievements) :
             player'.achievements[i] = player.achievements[i]
        /\ \A i, j \in 1..Len(player'.achievements) :
             player'.achievements[i] = player'.achievements[j] => i = j
    ]_vars

\* C23: Ended is terminal: once a stored session has its endedAt set, every
\* later mutation of it is rejected and leaves it unchanged; updateGameSession
\* and endGameSession on such a session change none of its score, level,
\* combo, maxCombo and endedAt and add no leaderboard row for it.
C23_EndedIsTerminal ==
  [][ \A id \in 1..Len(gameSessions) :
        gameSessions[id].endedAt # 0 =>
          /\ gameSessions'[id] = gameSessions[id]
          /\ \A i \in (Len(leaderboard) + 1)..Len(leaderboard') :
               leaderboard'[i].sessionId # id
    ]_vars

\* the step that puts a session into Running: handleStartGame when the scene
\* exists (resetGame), initGame() finishing when it had to be built
SessionStartStep ==
  \/ sessionsStarted' = sessionsStarted + 1 /\ gameRef = "game"
  \/ initGame.running /\ ~initGame'.running

\* C24: starting a session, the first one or one after a session that ended,
\* initialises the session timer (gameStartTime is the time of the start, no
\* accumulated pause, not paused) and resets score, combo, best combo, chop
\* count, level, spawn interval and the active targets to their initial
\* values.
C24_StartInitialisesSession ==
  [][ SessionStartStep =>
        /\ gameStartTime' = now'
        /\ totalPausedTime' = 0 /\ pauseStartTime' = 0
        /\ ~sceneIsPaused' /\ ~isPaused'
        /\ score' = 0 /\ combo' = 0 /\ currentScore' = 0 /\ currentCombo' = 0
        /\ gameStats' = [chopsCount |-> 0, maxCombo |-> 0]
        /\ level' = 1
        /\ logSpawnRate' = BASE_INTERVAL_MS /\ logSpawnTimer' = 0
        /\ logs' = << >>
    ]_vars

\* the promise of an achievement check issued at a destroy settles
CheckSettledStep == checksInFlight' = checksInFlight - 1

\* handleEndGame comes back from its awaits
EndDoneStep == endPending /\ ~endPending'

\* C25: a persistence call that fails never changes or halts gameplay and
\* never blocks ending.  When an achievement check issued at a destroy
\* settles, rejected or not, score, combo, targets and everything else of
\* the game stay as they were, and with the game on the screen the next tick
\* and the next hit can take place; when handleEndGame comes back from its
\* awaits, endGame() or the final check having rejected or not, the session
\* ends: the game is torn down, nothing is playing, and the displayed score
\* and combo are 0.
C25_PersistenceFailureIsolated ==
  [][ /\ CheckSettledStep =>
           /\ UNCHANGED << reactVars, sceneVars, isPaused, currentScore, currentCombo,
                           gameRef, sceneIsPaused, sceneGameActive, now >>
           /\ gameRef = "game" =>
                (ENABLED (\E delta \in StreakDeltas, rand \in PersistRands, x \in SpawnXs,
                             speed \in FallSpeeds : update(delta, rand, x, speed)))'
           /\ (gameRef = "game" /\ ~showInstructions /\ ~isPaused) =>
                (ENABLED (\E px \in SpawnXs, py \in StreakClickYs : chopAtPosition(px, py)))'
      /\ EndDoneStep =>
           /\ gameRef' = "null" /\ ~isPlaying' /\ ~gameActive' /\ showInstructions'
           /\ currentScore' = 0 /\ currentCombo' = 0
           /\ score' = 0 /\ combo' = 0 /\ logs' = << >>
    ]_vars

\* a session of six destroys is over although a persistence call of
\* handleEndGame was rejected and the achievement check of the fifth destroy
\* has not settled
C25_Witness ==
  /\ lastEvent.msg = "Failed to save game"
  /\ gameStats.chopsCount = 6
  /\ checksInFlight = 1
  /\ gameRef = "null" /\ ~isPlaying

\* C26: the fastest-reaction record is updated on a destroy exactly when a
\* reaction time is supplied and either no record is set yet or the supplied
\* time is smaller than the record, for every supplied value >= 0; so the
\* record, once set, is the minimum of the supplied times and never
\* increases.  This holds for stats.fastestChop of the game manager and for
\* stats.fastestChop of the stored player.  A record of 0 is one that is not
\* set, as in createInitialGameState and in createOrUpdatePlayer.
C26_FastestReactionIsMinimum ==
  [][ /\ ManagerChopStep =>
           \A logId \in 1..(MaxManagerLogs + 1), rt \in ReactionTimes :
             (chopLog(logId, rt) /\ rt # -1) =>
                gameState'.fastestChop =
                  IF gameState.fastestChop = 0 \/ rt < gameState.fastestChop
                    THEN rt ELSE gameState.fastestChop
      /\ unit = "hook" =>
           \A s \in PlayedScores, chops \in PlayedChops, c \in PlayedCombos,
              playTime \in PlayTimes, fastestChop \in PlayedFastestChops :
             (updatePlayerStats(s, chops, c, playTime, fastestChop) /\ fastestChop # -1) =>
                player'.stats.fastestChop =
                  IF player.stats.fastestChop = 0 \/ fastestChop < player.stats.fastestChop
                    THEN fastestChop ELSE player.stats.fastestChop
    ]_vars

\* Math.random() in thousandths
RandomDraws == 0..999

\* C27: in the category draw of the spawner the probability of a reinforced
\* ('hardwood') target grows linearly with the level only up to a cap below
\* 1: at every level >= 1 a draw exists that gives an ordinary target, while
\* the hazard has the draws below 2% and the bonus the draws from 2% to below
\* 7%, whatever the level.
C27_OrdinaryStaysPossible ==
  /\ level >= 1
  /\ \E rand \in RandomDraws : LogTypeOf(rand, level) = "normal"
  /\ \A rand \in RandomDraws :
       /\ LogTypeOf(rand, level) = "error" <=> rand < 20
       /\ LogTypeOf(rand, level) = "golden" <=> (rand >= 20 /\ rand < 70)

\* C28: in the game manager 'century_club' is unlocked exactly when 100 logs
\* have been chopped, 'first_chop' exactly when one log has been chopped, and
\* 'combo_master' exactly when the combo has reached 10: each of them unlocks
\* at its threshold and not earlier.
C28_AchievementsUnlockAtThreshold ==
  gameState.initialized =>
    /\ gameState.achievements["first_chop"].unlocked <=> gameState.totalChops >= 1
    /\ gameState.achievements["combo_master"].unlocked <=> gameState.bestCombo >= 10
    /\ gameState.achievements["century_club"].unlocked <=> gameState.totalChops >= 100

\* the leaderboard rows that endGameSession inserted for session id
RowsOfSession(id) == {i \in 1..Len(leaderboard) : leaderboard[i].sessionId = id}

\* C29: each game session contributes at most one leaderboard row and at most
\* one accumulation into the player's aggregate stats (so gamesPlayed counts
\* no more than the sessions, and totalScore and totalChops hold no more
\* than one set of final stats per session), for every interleaving of end
\* requests, two endGame calls for one session included.
C29_OneContributionPerSession ==
  /\ \A id \in 1..Len(gameSessions) : Cardinality(RowsOfSession(id)) <= 1
  /\ player.stats.gamesPlayed <= Len(gameSessions)
  /\ \E stats \in EndStats :
       /\ player.totalScore <= stats.score * Len(gameSessions)
       /\ player.totalChops <= stats.chops * Len(gameSessions)

\* the rows of a players table that hold name for a user other than userId
HeldByAnother(rows, userId, name) ==
  {i \in 1..Len(rows) : rows[i].name = name /\ rows[i].userId # userId}

\* C30: after every createOrUpdatePlayer call no two player records of
\* different users have the same name and no user has two records; and a
\* call whose name is held by another user's record ends in an error and
\* leaves the players table as it was.
C30_NamesStayUnique ==
  [][ createResult'.call = "createOrUpdatePlayer" =>
        /\ \A i, j \in 1..Len(players') :
             i # j => /\ players'[i].userId # players'[j].userId
                      /\ players'[i].name # players'[j].name
        /\ HeldByAnother(players, createResult'.userId, createResult'.name) # {} =>
             /\ "error" \in DOMAIN createResult'
             /\ players' = players
    ]_vars

\* three users have a record each, and the last call asked for a name that
\* another user's record holds
C30_Witness ==
  /\ Len(players) = 3
  /\ "error" \in DOMAIN createResult
  /\ HeldByAnother(players, createResult.userId, createResult.name) # {}

====
